---- MODULE Spec2Model ----
(***************************************************************************)
(* Lowering of the field-operator AST (FOAST) to Iterator IR (ITIR):       *)
(* functional/ffront/foast_to_itir.py.  AssignResolver inlines a sequence  *)
(* of assignments into the final return statement; FieldOperatorLowering   *)
(* rewrites the resolved expression node by node.                          *)
(*                                                                         *)
(* Nodes are records tagged with their class name in the field "kind";     *)
(* a node has exactly the attributes the source reads from it, so that an  *)
(* attribute access on a node without that attribute is visible as such.   *)
(* The opaque source location carried by every FOAST node is not modelled. *)
(* A raised exception is the value Error(exc), propagated outwards.        *)
(***************************************************************************)
EXTENDS Integers, Sequences, FiniteSets, TLC

VARIABLES node, pc, resolved, lowered

vars == <<node, pc, resolved, lowered>>

(***************************************************************************)
(* Bounds of the input families.                                           *)
(***************************************************************************)
MaxAssigns == 2
MaxElts == 2
MaxIndex == 1
MaxChain == 4
MaxParams == 2

(***************************************************************************)
(* FOAST node constructors (functional.ffront.field_operator_ast).         *)
(***************************************************************************)
Name(id) == [kind |-> "Name", id |-> id]
Assign(target, value) == [kind |-> "Assign", target |-> target, value |-> value]
Return(value) == [kind |-> "Return", value |-> value]
FieldSymbol(id) == [kind |-> "FieldSymbol", id |-> id]
Symbol(id) == [kind |-> "Symbol", id |-> id]
Subscript(value, index) == [kind |-> "Subscript", value |-> value, index |-> index]
TupleExpr(elts) == [kind |-> "TupleExpr", elts |-> elts]
UnaryOp(op, operand) == [kind |-> "UnaryOp", op |-> op, operand |-> operand]
BinOp(op, left, right) == [kind |-> "BinOp", op |-> op, left |-> left, right |-> right]
Compare(op, left, right) == [kind |-> "Compare", op |-> op, left |-> left, right |-> right]
Call(func, args) == [kind |-> "Call", func |-> func, args |-> args]
FieldOperator(id, params, body, symtable) ==
    [kind |-> "FieldOperator", id |-> id, params |-> params, body |-> body,
     symtable_ |-> symtable]

\* A node of a class for which neither translator defines a visit_ method.
Unrecognized == [kind |-> "Unrecognized"]

\* The values of foast.UnaryOperator; NOT is the member the lowering tests for.
NOT == "not_"
USUB == "minus"
UnaryOperator == {USUB, NOT}

(***************************************************************************)
(* ITIR node constructors (functional.iterator.ir).                        *)
(***************************************************************************)
Sym(id) == [kind |-> "Sym", id |-> id]
SymRef(id) == [kind |-> "SymRef", id |-> id]
FunCall(fun, args) == [kind |-> "FunCall", fun |-> fun, args |-> args]
IntLiteral(value) == [kind |-> "IntLiteral", value |-> value]
FunctionDefinition(id, params, expr) ==
    [kind |-> "FunctionDefinition", id |-> id, params |-> params, expr |-> expr]

(***************************************************************************)
(* Exceptions and Python helpers.                                          *)
(***************************************************************************)
Error(exc) == [kind |-> "Error", exc |-> exc]
Raises(v) == v.kind = "Error"
None == [kind |-> "None"]

\* The value of an expression whose sub-evaluations, in evaluation order, are
\* `parts`: the first exception raised among them, else `result`.
Propagate(parts, result) ==
    IF \E i \in DOMAIN parts : Raises(parts[i])
    THEN parts[CHOOSE i \in DOMAIN parts :
                 /\ Raises(parts[i])
                 /\ \A j \in DOMAIN parts : Raises(parts[j]) => i <= j]
    ELSE result

\* hasattr(n, attr): the record has the field.
HasAttr(n, attr) == attr \in DOMAIN n

EmptyDict == [k \in {} |-> None]

\* dict.update: the entries of d overwrite those of names.
DictUpdate(names, d) ==
    [k \in (DOMAIN names) \cup (DOMAIN d) |-> IF k \in DOMAIN d THEN d[k] ELSE names[k]]

(***************************************************************************)
(* AssignResolver                                                          *)
(***************************************************************************)
RECURSIVE AssignResolver_visit(_, _)

AssignResolver_visit_Name(n, names) ==
    IF n.id \in DOMAIN names THEN names[n.id] ELSE n

\* visit_Assign binding the value as written, without resolving it.
AssignResolver_visit_Assign_raw(n, names) ==
    [k \in {n.target.id} |-> n.value]

AssignResolver_visit_Assign(n, names) ==
    [k \in {n.target.id} |-> AssignResolver_visit(n.value, names)]

\* NodeTranslator.generic_visit: a node without a visit_ method is rebuilt
\* from its visited children.
AssignResolver_generic_visit(n, names) ==
    CASE n.kind = "Subscript" ->
           Subscript(AssignResolver_visit(n.value, names), n.index)
      [] n.kind = "TupleExpr" ->
           TupleExpr([i \in DOMAIN n.elts |-> AssignResolver_visit(n.elts[i], names)])
      [] n.kind = "UnaryOp" ->
           UnaryOp(n.op, AssignResolver_visit(n.operand, names))
      [] n.kind = "BinOp" ->
           BinOp(n.op, AssignResolver_visit(n.left, names),
                 AssignResolver_visit(n.right, names))
      [] n.kind = "Compare" ->
           Compare(n.op, AssignResolver_visit(n.left, names),
                   AssignResolver_visit(n.right, names))
      [] n.kind = "Call" ->
           Call(AssignResolver_visit(n.func, names),
                [i \in DOMAIN n.args |-> AssignResolver_visit(n.args[i], names)])
      [] n.kind = "Return" ->
           Return(AssignResolver_visit(n.value, names))
      [] OTHER -> n

AssignResolver_visit(n, names) ==
    CASE n.kind = "Name" -> AssignResolver_visit_Name(n, names)
      [] n.kind = "Assign" -> AssignResolver_visit_Assign(n, names)
      [] OTHER -> AssignResolver_generic_visit(n, names)

\* The loop of apply in which an existing binding is kept on reassignment.
RECURSIVE AssignResolver_names_first(_, _, _)
AssignResolver_names_first(nodes, i, names) ==
    IF i >= Len(nodes)
    THEN names
    ELSE AssignResolver_names_first(nodes, i + 1,
             DictUpdate(AssignResolver_visit(nodes[i], names), names))

\* The loop of apply over nodes[:-1], from statement i on.
RECURSIVE AssignResolver_names(_, _, _)
AssignResolver_names(nodes, i, names) ==
    IF i >= Len(nodes)
    THEN names
    ELSE AssignResolver_names(nodes, i + 1,
             DictUpdate(names, AssignResolver_visit(nodes[i], names)))

\* apply visiting the returned value without the accumulated names.
AssignResolver_apply_nonames(nodes) ==
    IF Len(nodes) = 0
    THEN Error("IndexError")
    ELSE LET last == nodes[Len(nodes)]
         IN  IF ~HasAttr(last, "value")
             THEN Error("AttributeError")
             ELSE Return(AssignResolver_visit(last.value, EmptyDict))

AssignResolver_apply(nodes) ==
    IF Len(nodes) = 0
    THEN Error("IndexError")
    ELSE LET names == AssignResolver_names(nodes, 1, EmptyDict)
             last == nodes[Len(nodes)]
         IN  IF ~HasAttr(last, "value")
             THEN Error("AttributeError")
             ELSE Return(AssignResolver_visit(last.value, names))

(***************************************************************************)
(* FieldOperatorLowering                                                   *)
(***************************************************************************)
RECURSIVE visit(_, _)

VisitList(seq, symtable) == [i \in DOMAIN seq |-> visit(seq[i], symtable)]

body_visit(exprs, params, symtable) ==
    LET r == AssignResolver_apply(exprs)
    IN  IF Raises(r) THEN r ELSE visit(r, symtable)

\* visit_FieldOperator handing on the parameters unvisited.
visit_FieldOperator_rawparams(n, kwargs) ==
    LET symtable == n.symtable_
        params == n.params
        expr == body_visit(n.body, params, symtable)
    IN  Propagate(<<expr>>, FunctionDefinition(n.id, params, expr))

visit_FieldOperator(n, kwargs) ==
    LET symtable == n.symtable_
        params == VisitList(n.params, symtable)
        expr == IF \E i \in DOMAIN params : Raises(params[i])
                THEN None
                ELSE body_visit(n.body, params, symtable)
    IN  Propagate(params \o <<expr>>, FunctionDefinition(n.id, params, expr))

visit_Return(n, symtable) == visit(n.value, symtable)

visit_FieldSymbol(n, symtable) == Sym(n.id)

\* A parameter Symbol that is not a FieldSymbol.
visit_Symbol(n, symtable) == Sym(n.id)

\* visit_Name dereferencing every name the symbol table knows.
visit_Name_anysymbol(n, symtable) ==
    IF n.id \in DOMAIN symtable
    THEN FunCall(SymRef("deref"), <<SymRef(n.id)>>)
    ELSE SymRef(n.id)

visit_Name(n, symtable) ==
    IF n.id \in DOMAIN symtable /\ symtable[n.id].kind = "FieldSymbol"
    THEN FunCall(SymRef("deref"), <<SymRef(n.id)>>)
    ELSE SymRef(n.id)

\* visit_Subscript folding the subscript of a tuple display.
visit_Subscript_fold(n, symtable) ==
    LET value == visit(n.value, symtable)
    IN  IF n.value.kind = "TupleExpr" /\ n.index + 1 \in DOMAIN n.value.elts
        THEN visit(n.value.elts[n.index + 1], symtable)
        ELSE Propagate(<<value>>,
                       FunCall(SymRef("tuple_get"), <<value, IntLiteral(n.index)>>))

visit_Subscript(n, symtable) ==
    LET value == visit(n.value, symtable)
    IN  Propagate(<<value>>, FunCall(SymRef("tuple_get"), <<value, IntLiteral(n.index)>>))

visit_TupleExpr(n, symtable) ==
    LET elts == VisitList(n.elts, symtable)
    IN  Propagate(elts, FunCall(SymRef("make_tuple"), elts))

\* visit_UnaryOp without the zero operand.
visit_UnaryOp_nozero(n, symtable) ==
    LET operand == visit(n.operand, symtable)
    IN  Propagate(<<operand>>, FunCall(SymRef(n.op), <<operand>>))

visit_UnaryOp(n, symtable) ==
    LET zero_arg == IF n.op # NOT THEN <<IntLiteral(0)>> ELSE <<>>
        operand == visit(n.operand, symtable)
    IN  Propagate(<<operand>>, FunCall(SymRef(n.op), zero_arg \o <<operand>>))

visit_BinOp(n, symtable) ==
    LET left == visit(n.left, symtable)
        right == visit(n.right, symtable)
    IN  Propagate(<<left, right>>, FunCall(SymRef(n.op), <<left, right>>))

visit_Compare(n, symtable) ==
    LET left == visit(n.left, symtable)
        right == visit(n.right, symtable)
    IN  Propagate(<<left, right>>, FunCall(SymRef(n.op), <<left, right>>))

\* visit_Call lowering the func like any other expression.
visit_Call_visitfunc(n, symtable) ==
    LET new_fun == visit(n.func, symtable)
        args == VisitList(n.args, symtable)
    IN  Propagate(<<new_fun>> \o args, FunCall(new_fun, args))

visit_Call(n, symtable) ==
    LET new_fun == IF n.func.kind = "Name"
                   THEN SymRef(n.func.id)
                   ELSE visit(n.func, symtable)
        args == VisitList(n.args, symtable)
    IN  Propagate(<<new_fun>> \o args, FunCall(new_fun, args))

\* A dispatcher that hands an unrecognized node on unchanged.
generic_visit_passthrough(n, symtable) == n

\* A node of a class without a visit_ method reaching the dispatcher.
generic_visit(n, symtable) == Error("UnrecognizedNode")

visit(n, symtable) ==
    CASE n.kind = "FieldOperator" -> visit_FieldOperator(n, symtable)
      [] n.kind = "Return" -> visit_Return(n, symtable)
      [] n.kind = "FieldSymbol" -> visit_FieldSymbol(n, symtable)
      [] n.kind = "Symbol" -> visit_Symbol(n, symtable)
      [] n.kind = "Name" -> visit_Name(n, symtable)
      [] n.kind = "Subscript" -> visit_Subscript(n, symtable)
      [] n.kind = "TupleExpr" -> visit_TupleExpr(n, symtable)
      [] n.kind = "UnaryOp" -> visit_UnaryOp(n, symtable)
      [] n.kind = "BinOp" -> visit_BinOp(n, symtable)
      [] n.kind = "Compare" -> visit_Compare(n, symtable)
      [] n.kind = "Call" -> visit_Call(n, symtable)
      [] OTHER -> generic_visit(n, symtable)

FieldOperatorLowering_apply(n) == visit(n, EmptyDict)

(***************************************************************************)
(* Input families: the field operators handed to the two entry points.     *)
(***************************************************************************)
ParamIds == {"inp", "s"}
Locals == {"a", "b"}
Ids == ParamIds \cup Locals

SeqsUpTo(S, n) == UNION {[1..k -> S] : k \in 0..n}

Leaves == {Name(i) : i \in Ids}

\* The symbol table of an operator with a field parameter inp and a
\* non-field parameter s.
StdParams == <<FieldSymbol("inp"), Symbol("s")>>
StdSymtable == [k \in ParamIds |-> IF k = "inp" THEN FieldSymbol(k) ELSE Symbol(k)]

\* Every classification of a subset of the parameter names.
Symtables ==
    UNION {{[k \in D |-> IF k \in F THEN FieldSymbol(k) ELSE Symbol(k)] : F \in SUBSET D} :
           D \in SUBSET ParamIds}

\* Straight-line bodies: assignments to locals followed by a return.
AssignValues == Leaves \cup {UnaryOp(USUB, l) : l \in Leaves}
Assigns == {Assign(Name(t), v) : t \in Locals, v \in AssignValues}
ReturnValues ==
    Leaves
    \cup {TupleExpr(<<l1, l2>>) : l1 \in Leaves, l2 \in Leaves}
    \cup {Call(l1, <<l2>>) : l1 \in Leaves, l2 \in Leaves}
StraightBodies ==
    {p \o <<Return(r)>> : p \in SeqsUpTo(Assigns, MaxAssigns), r \in ReturnValues}
StraightOperators ==
    {FieldOperator("fieldop", StdParams, b, StdSymtable) : b \in StraightBodies}

\* Single-return bodies over every expression kind, nested once.
LeavesU == Leaves \cup {Unrecognized}
EltSeqs == SeqsUpTo(LeavesU, MaxElts)
Tuples == {TupleExpr(es) : es \in EltSeqs}
Subscripts == {Subscript(l, i) : l \in LeavesU, i \in 0..MaxIndex}
UnaryOps == {UnaryOp(op, l) : op \in UnaryOperator, l \in LeavesU}
Exprs1 ==
    Tuples \cup Subscripts \cup UnaryOps
    \cup {BinOp("plus", l1, l2) : l1 \in LeavesU, l2 \in LeavesU}
    \cup {Compare("greater", l1, l2) : l1 \in LeavesU, l2 \in LeavesU}
    \cup {Call(l, es) : l \in LeavesU, es \in EltSeqs}
Exprs2 ==
    {Subscript(t, i) : t \in Tuples, i \in 0..MaxIndex}
    \cup {UnaryOp(op, u) : op \in UnaryOperator, u \in UnaryOps}
    \cup {Call(f, <<l>>) : f \in Subscripts \cup UnaryOps, l \in Leaves}
    \cup {BinOp("minus", u, l) : u \in UnaryOps, l \in Leaves}
Exprs == LeavesU \cup Exprs1 \cup Exprs2
ExprOperators ==
    {FieldOperator("fieldop", <<>>, <<Return(e)>>, st) : e \in Exprs, st \in Symtables}

\* Parameter lists.
ParamSymbols == {FieldSymbol(i) : i \in ParamIds} \cup {Symbol(i) : i \in ParamIds}
ParamOperators ==
    {FieldOperator(id, ps, <<Return(Name("inp"))>>, StdSymtable) :
        id \in {"fieldop", "other"}, ps \in SeqsUpTo(ParamSymbols, MaxParams)}

\* Rename chains x1 = p; x2 = x1; ...; xn = x(n-1); return xn.
ChainNames == <<"x1", "x2", "x3", "x4", "x5", "x6">>
ChainBody(p, n) ==
    [i \in 1..(n + 1) |->
        IF i = n + 1 THEN Return(Name(ChainNames[n]))
        ELSE Assign(Name(ChainNames[i]), Name(IF i = 1 THEN p ELSE ChainNames[i - 1]))]
ChainOperators ==
    {FieldOperator("fieldop", StdParams, ChainBody(p, n), StdSymtable) :
        p \in ParamIds, n \in 1..MaxChain}

\* Statement sequences that are not a body: empty, or not ending in a Return.
NonReturns == Assigns \cup Leaves \cup UnaryOps \cup Subscripts
MalformedBodies ==
    {<<>>} \cup {p \o <<x>> : p \in SeqsUpTo(Assigns, 1), x \in NonReturns}
MalformedOperators ==
    {FieldOperator("fieldop", StdParams, b, StdSymtable) : b \in MalformedBodies}

Operators ==
    StraightOperators \cup ExprOperators \cup ParamOperators
    \cup ChainOperators \cup MalformedOperators

(***************************************************************************)
(* The state machine: an operator is parsed, then either its body is       *)
(* resolved (AssignResolver.apply) or it is lowered                        *)
(* (FieldOperatorLowering.apply).                                          *)
(***************************************************************************)
Init ==
    /\ node \in Operators
    /\ pc = "parsed"
    /\ resolved = None
    /\ lowered = None

Resolve ==
    /\ pc = "parsed"
    /\ resolved' = AssignResolver_apply(node.body)
    /\ pc' = "resolved"
    /\ UNCHANGED <<node, lowered>>

Lower ==
    /\ pc = "parsed"
    /\ lowered' = FieldOperatorLowering_apply(node)
    /\ pc' = "lowered"
    /\ UNCHANGED <<node, resolved>>

Next == Resolve \/ Lower

Spec == Init /\ [][Next]_vars

TypeOK == pc \in {"parsed", "resolved", "lowered"}

(***************************************************************************)
(* Vocabulary of the properties.                                           *)
(***************************************************************************)
RECURSIVE SumSeq(_)
SumSeq(s) == IF Len(s) = 0 THEN 0 ELSE Head(s) + SumSeq(Tail(s))

\* Occurrences of Name(id) in value position in a FOAST expression: every
\* occurrence except the func of a Call.
RECURSIVE ValueUses(_, _)
ValueUses(e, id) ==
    CASE e.kind = "Name" -> IF e.id = id THEN 1 ELSE 0
      [] e.kind = "Subscript" -> ValueUses(e.value, id)
      [] e.kind = "TupleExpr" -> SumSeq([i \in DOMAIN e.elts |-> ValueUses(e.elts[i], id)])
      [] e.kind = "UnaryOp" -> ValueUses(e.operand, id)
      [] e.kind \in {"BinOp", "Compare"} -> ValueUses(e.left, id) + ValueUses(e.right, id)
      [] e.kind = "Call" ->
           (IF e.func.kind = "Name" THEN 0 ELSE ValueUses(e.func, id))
           + SumSeq([i \in DOMAIN e.args |-> ValueUses(e.args[i], id)])
      [] OTHER -> 0

\* Occurrences of Name(id) as the func of a Call.
RECURSIVE TargetUses(_, _)
TargetUses(e, id) ==
    CASE e.kind = "Subscript" -> TargetUses(e.value, id)
      [] e.kind = "TupleExpr" -> SumSeq([i \in DOMAIN e.elts |-> TargetUses(e.elts[i], id)])
      [] e.kind = "UnaryOp" -> TargetUses(e.operand, id)
      [] e.kind \in {"BinOp", "Compare"} -> TargetUses(e.left, id) + TargetUses(e.right, id)
      [] e.kind = "Call" ->
           (IF e.func.kind = "Name"
            THEN (IF e.func.id = id THEN 1 ELSE 0)
            ELSE TargetUses(e.func, id))
           + SumSeq([i \in DOMAIN e.args |-> TargetUses(e.args[i], id)])
      [] OTHER -> 0

IsDeref(t) == t.kind = "FunCall" /\ t.fun = SymRef("deref")

\* Occurrences of the call deref(SymRef(id)) in an ITIR expression.
RECURSIVE DerefCalls(_, _)
DerefCalls(t, id) ==
    IF t.kind # "FunCall" THEN 0
    ELSE IF IsDeref(t) THEN (IF t.args = <<SymRef(id)>> THEN 1 ELSE 0)
    ELSE DerefCalls(t.fun, id) + SumSeq([i \in DOMAIN t.args |-> DerefCalls(t.args[i], id)])

\* Occurrences of SymRef(id) in an ITIR expression outside a deref call.
RECURSIVE BareRefs(_, _)
BareRefs(t, id) ==
    IF t.kind = "SymRef" THEN (IF t.id = id THEN 1 ELSE 0)
    ELSE IF t.kind # "FunCall" THEN 0
    ELSE IF IsDeref(t) THEN 0
    ELSE BareRefs(t.fun, id) + SumSeq([i \in DOMAIN t.args |-> BareRefs(t.args[i], id)])

\* Every deref call of an ITIR expression wraps exactly one SymRef.
RECURSIVE DerefsWellFormed(_)
DerefsWellFormed(t) ==
    IF t.kind # "FunCall" THEN TRUE
    ELSE IF IsDeref(t) THEN Len(t.args) = 1 /\ t.args[1].kind = "SymRef"
    ELSE DerefsWellFormed(t.fun) /\ \A i \in DOMAIN t.args : DerefsWellFormed(t.args[i])

\* The sub-terms of an ITIR expression.
RECURSIVE Terms(_)
Terms(t) ==
    IF t.kind = "FunCall"
    THEN {t} \cup Terms(t.fun) \cup UNION {Terms(t.args[i]) : i \in DOMAIN t.args}
    ELSE {t}

\* The ids of the Name nodes of a FOAST expression.
RECURSIVE NamesIn(_)
NamesIn(e) ==
    CASE e.kind = "Name" -> {e.id}
      [] e.kind = "Subscript" -> NamesIn(e.value)
      [] e.kind = "TupleExpr" -> UNION {NamesIn(e.elts[i]) : i \in DOMAIN e.elts}
      [] e.kind = "UnaryOp" -> NamesIn(e.operand)
      [] e.kind \in {"BinOp", "Compare"} -> NamesIn(e.left) \cup NamesIn(e.right)
      [] e.kind = "Call" -> NamesIn(e.func) \cup UNION {NamesIn(e.args[i]) : i \in DOMAIN e.args}
      [] OTHER -> {}

\* The node kinds of a FOAST expression.
RECURSIVE KindsIn(_)
KindsIn(e) ==
    {e.kind} \cup
    CASE e.kind = "Subscript" -> KindsIn(e.value)
      [] e.kind = "TupleExpr" -> UNION {KindsIn(e.elts[i]) : i \in DOMAIN e.elts}
      [] e.kind = "UnaryOp" -> KindsIn(e.operand)
      [] e.kind \in {"BinOp", "Compare"} -> KindsIn(e.left) \cup KindsIn(e.right)
      [] e.kind = "Call" -> KindsIn(e.func) \cup UNION {KindsIn(e.args[i]) : i \in DOMAIN e.args}
      [] OTHER -> {}

IsField(symtable, id) == id \in DOMAIN symtable /\ symtable[id].kind = "FieldSymbol"

\* The body invariant: non-empty, assignments followed by one return, no name
\* assigned twice.
AssignsThenReturn(body) ==
    /\ Len(body) >= 1
    /\ body[Len(body)].kind = "Return"
    /\ \A i \in 1..(Len(body) - 1) : body[i].kind = "Assign"
Targets(body) == {body[i].target.id : i \in {j \in DOMAIN body : body[j].kind = "Assign"}}
BodyInvariant(body) ==
    /\ AssignsThenReturn(body)
    /\ \A i, j \in 1..(Len(body) - 1) : body[i].target.id = body[j].target.id => i = j

\* No statement reads a name that the same or a later statement assigns.
DefinedBeforeUse(body) ==
    \A i \in 1..(Len(body) - 1) : \A j \in i..(Len(body) - 1) :
        body[j].target.id \notin NamesIn(body[i].value)

\* The expression the lowering receives from the resolver.
ResolvedExpr == AssignResolver_apply(node.body).value
Lowered == pc = "lowered" /\ ~Raises(lowered)

(***************************************************************************)
(* C1: in the lowered expression every value use of a field-classified     *)
(* Name is one deref(SymRef(id)) call, one per use site, and every Name    *)
(* that is not field-classified or is absent from the symbol table is a    *)
(* bare SymRef(id).                                                        *)
(***************************************************************************)
C1_DerefPerUseSite ==
    Lowered =>
        /\ DerefsWellFormed(lowered.expr)
        /\ \A id \in Ids \cup {ChainNames[i] : i \in DOMAIN ChainNames} :
              IF IsField(node.symtable_, id)
              THEN /\ DerefCalls(lowered.expr, id) = ValueUses(ResolvedExpr, id)
                   /\ BareRefs(lowered.expr, id) = TargetUses(ResolvedExpr, id)
              ELSE /\ DerefCalls(lowered.expr, id) = 0
                   /\ BareRefs(lowered.expr, id) =
                         ValueUses(ResolvedExpr, id) + TargetUses(ResolvedExpr, id)

C1_Witness ==
    /\ Lowered
    /\ node.body = <<Assign(Name("a"), Name("inp")),
                     Return(TupleExpr(<<Name("a"), Name("a")>>))>>
    /\ DerefCalls(lowered.expr, "inp") = 2

(***************************************************************************)
(* C2: a chain of rename assignments x1 = p; x2 = x1; ...; return xn with  *)
(* p a free name resolves to Return(Name(p)).                              *)
(***************************************************************************)
IsRenameChain(body, p) ==
    /\ Len(body) >= 2
    /\ AssignsThenReturn(body)
    /\ p \notin Targets(body)
    /\ body[1].value = Name(p)
    /\ \A i \in 2..(Len(body) - 1) : body[i].value = Name(body[i - 1].target.id)
    /\ body[Len(body)].value = Name(body[Len(body) - 1].target.id)

C2_ChainResolvesToSource ==
    pc = "resolved" =>
        \A p \in ParamIds \cup Locals :
            IsRenameChain(node.body, p) => resolved = Return(Name(p))

C2_Witness ==
    /\ pc = "resolved"
    /\ Len(node.body) = 4
    /\ IsRenameChain(node.body, "inp")
    /\ resolved = Return(Name("inp"))

(***************************************************************************)
(* C3 as stated: for every body satisfying the body invariant the resolved *)
(* expression has no Assign node and no Name bound by an Assign of the     *)
(* body, and the lowered expr has no reference to a local binding.         *)
(***************************************************************************)
NoLocalLeft(body) ==
    /\ pc = "resolved" =>
          /\ resolved.kind = "Return"
          /\ "Assign" \notin KindsIn(resolved.value)
          /\ NamesIn(resolved.value) \cap Targets(body) = {}
    /\ Lowered =>
          /\ lowered.kind = "FunctionDefinition"
          /\ \A t \in Terms(lowered.expr) :
                /\ t.kind \in {"FunCall", "SymRef", "IntLiteral"}
                /\ t.kind = "SymRef" => t.id \notin Targets(body)

C3_Original == BodyInvariant(node.body) => NoLocalLeft(node.body)

(***************************************************************************)
(* C3 amended: the same, for bodies that satisfy the body invariant and in *)
(* which no statement reads a name assigned by the same or a later         *)
(* statement.                                                              *)
(***************************************************************************)
C3_NoLocalBindingLeft ==
    (BodyInvariant(node.body) /\ DefinedBeforeUse(node.body)) => NoLocalLeft(node.body)

C3_Witness ==
    /\ pc = "resolved"
    /\ BodyInvariant(node.body)
    /\ DefinedBeforeUse(node.body)
    /\ Len(node.body) = 3
    /\ node.body[2].value = UnaryOp(USUB, Name(node.body[1].target.id))
    /\ node.body[3].value.kind = "TupleExpr"
    /\ NamesIn(node.body[3].value) = Targets(node.body)
    /\ NamesIn(resolved.value) = {"inp"}

(***************************************************************************)
(* C4: a Call whose func is a bare Name is lowered to a FunCall whose fun  *)
(* is SymRef(func.id), never a deref call, even for a field-classified id; *)
(* the arguments are lowered element-wise in order.                        *)
(***************************************************************************)
C4_CallTargetNotDereferenced ==
    Lowered =>
        /\ \A t \in Terms(lowered.expr) : t.kind = "FunCall" => ~IsDeref(t.fun)
        /\ (ResolvedExpr.kind = "Call" /\ ResolvedExpr.func.kind = "Name") =>
              /\ lowered.expr.kind = "FunCall"
              /\ lowered.expr.fun = SymRef(ResolvedExpr.func.id)
              /\ Len(lowered.expr.args) = Len(ResolvedExpr.args)
              /\ \A i \in DOMAIN ResolvedExpr.args :
                    lowered.expr.args[i] = visit(ResolvedExpr.args[i], node.symtable_)

C4_Witness ==
    /\ Lowered
    /\ IsField(node.symtable_, "inp")
    /\ node.body = <<Assign(Name("a"), Name("inp")),
                     Return(Call(Name("a"), <<Name("inp")>>))>>
    /\ lowered.expr = FunCall(SymRef("inp"), <<FunCall(SymRef("deref"), <<SymRef("inp")>>)>>)

(***************************************************************************)
(* C5: negation is lowered to a call named after the operator with the two *)
(* arguments [IntLiteral(0), lower(operand)]; logical not is lowered to a  *)
(* call with the single argument [lower(operand)].                         *)
(***************************************************************************)
C5_NegationDesugared ==
    Lowered =>
        /\ \A t \in Terms(lowered.expr) :
              /\ (t.kind = "FunCall" /\ t.fun = SymRef(NOT)) =>
                    Len(t.args) = 1 /\ t.args[1] # IntLiteral(0)
              /\ (t.kind = "FunCall" /\ t.fun = SymRef(USUB)) =>
                    Len(t.args) = 2
        /\ ResolvedExpr.kind = "UnaryOp" =>
              LET operand == visit(ResolvedExpr.operand, node.symtable_)
              IN  /\ ResolvedExpr.op = USUB =>
                        lowered.expr = FunCall(SymRef(USUB), <<IntLiteral(0), operand>>)
                  /\ ResolvedExpr.op = NOT =>
                        lowered.expr = FunCall(SymRef(NOT), <<operand>>)

C5_Witness ==
    /\ Lowered
    /\ node.body = <<Return(UnaryOp(USUB, UnaryOp(NOT, Name("s"))))>>
    /\ lowered.expr =
          FunCall(SymRef("minus"),
                  <<IntLiteral(0), FunCall(SymRef("not_"), <<SymRef("s")>>)>>)

C7_TupleSubscriptNotFolded ==
    (Lowered /\ ResolvedExpr.kind = "Subscript" /\ ResolvedExpr.value.kind = "TupleExpr") =>
        LET elts == ResolvedExpr.value.elts
            index == ResolvedExpr.index
        IN  /\ lowered.expr =
                  FunCall(SymRef("tuple_get"),
                          <<FunCall(SymRef("make_tuple"),
                                    [k \in DOMAIN elts |-> visit(elts[k], node.symtable_)]),
                            IntLiteral(index)>>)
            /\ \A k \in DOMAIN elts : lowered.expr # visit(elts[k], node.symtable_)

C7_Witness ==
    /\ Lowered
    /\ node.body = <<Return(Subscript(TupleExpr(<<Name("inp"), Name("s")>>), 1))>>
    /\ node.symtable_ = StdSymtable
    /\ lowered.expr =
          FunCall(SymRef("tuple_get"),
                  <<FunCall(SymRef("make_tuple"),
                            <<FunCall(SymRef("deref"), <<SymRef("inp")>>), SymRef("s")>>),
                    IntLiteral(1)>>)

Malformed(body) == Len(body) = 0 \/ body[Len(body)].kind # "Return"

C9_MalformedBodyFails ==
    Malformed(node.body) =>
        /\ pc = "resolved" => Raises(resolved)
        /\ pc = "lowered" => Raises(lowered)

(***************************************************************************)
(* C10: the substitution mapping is built in statement order: a Name in a  *)
(* statement is replaced only if an earlier statement bound it, and then   *)
(* by the expression of the latest earlier binding; reassigning a name is  *)
(* not an error.                                                           *)
(***************************************************************************)
\* The statement that last assigned id before statement i, or 0.
LastBinding(body, i, id) ==
    LET js == {j \in 1..(i - 1) : body[j].target.id = id}
    IN  IF js = {} THEN 0 ELSE CHOOSE j \in js : \A k \in js : k <= j

\* The expression of statement i with every bound Name spliced in.
RECURSIVE Spliced(_, _, _)
Spliced(body, i, e) ==
    CASE e.kind = "Name" ->
           LET j == LastBinding(body, i, e.id)
           IN  IF j = 0 THEN e ELSE Spliced(body, j, body[j].value)
      [] e.kind = "UnaryOp" -> UnaryOp(e.op, Spliced(body, i, e.operand))
      [] e.kind = "TupleExpr" ->
           TupleExpr([k \in DOMAIN e.elts |-> Spliced(body, i, e.elts[k])])
      [] e.kind = "Call" ->
           Call(Spliced(body, i, e.func),
                [k \in DOMAIN e.args |-> Spliced(body, i, e.args[k])])
      [] OTHER -> e

C10_LaterBindingWins ==
    (pc = "resolved" /\ AssignsThenReturn(node.body)) =>
        /\ ~Raises(resolved)
        /\ resolved =
              Return(Spliced(node.body, Len(node.body), node.body[Len(node.body)].value))

C10_Witness ==
    /\ pc = "resolved"
    /\ node.body = <<Assign(Name("a"), Name("inp")),
                     Assign(Name("a"), UnaryOp(USUB, Name("a"))),
                     Return(TupleExpr(<<Name("a"), Name("b")>>))>>
    /\ resolved = Return(TupleExpr(<<UnaryOp(USUB, Name("inp")), Name("b")>>))
====
